---- MODULE Spec2Model ----
(***************************************************************************)
(* A model of the Postfix address verification server (verify.c) and of    *)
(* the lookup table proxy server (proxymap.c).                             *)
(*                                                                         *)
(* C strings are sequences of one-character strings, so that formatting    *)
(* (vstring_sprintf), parsing (split_at, atoi, atol) and prefix stripping  *)
(* (strncmp) are computed the way the C code computes them.                *)
(***************************************************************************)
EXTENDS Integers, Sequences, FiniteSets, TLC

VARIABLES
    now,                    \* the wall clock, what time((time_t *) 0) returns
    verify_map,             \* verify.c: static DICT *verify_map (key -> raw value)
    var_verify_neg_cache,   \* address_verify_negative_cache
    var_verify_pos_exp,     \* address_verify_positive_expire_time
    var_verify_pos_try,     \* address_verify_positive_refresh_time
    var_verify_neg_exp,     \* address_verify_negative_expire_time
    var_verify_neg_try,     \* address_verify_negative_refresh_time
    last,                   \* the request handled at the current time last (history)
    hist,                   \* per address: the probes and misses so far (history)
    codec,                  \* an entry on its way through make_entry and parse_entry
    var_proxy_read_maps,    \* proxymap.c: the value of proxy_read_maps in main.cf
    proxy_read_maps,        \* proxymap.c: static HTABLE *proxy_read_maps (its keys)
    dict_table,             \* the handles that dict_register knows, by name:flags
    dict_opens,             \* the dict_open calls of this process, by name:flags (history)
    proxy_up,               \* the proxymap process is running
    proxy_conn,             \* this process has accepted a connection
    proxy_changed,          \* what dict_changed() returns
    plast,                  \* the proxymap request handled last (history)
    flock,                  \* deliver_flock.c: one call of deliver_flock
    virt8                   \* virtual8_maps_find.c: calls of virtual8_maps_find

verifyConf == <<var_verify_neg_cache, var_verify_pos_exp, var_verify_pos_try,
                var_verify_neg_exp, var_verify_neg_try>>
verifyVars == <<now, verify_map, verifyConf, last, hist>>

codecVars == <<codec>>
proxyVars == <<var_proxy_read_maps, proxy_read_maps, dict_table, dict_opens,
               proxy_up, proxy_conn, proxy_changed, plast>>

libVars == <<flock, virt8>>

vars == <<verifyVars, codecVars, proxyVars, libVars>>

(***************************************************************************)
(* Bounds of the model.                                                    *)
(***************************************************************************)
MaxClock == 5        \* the clock takes the values ClockAt(0), ..., ClockAt(MaxClock)
MaxStatusArg == 3    \* the status codes of UPDATE requests are 0..MaxStatusArg

(***************************************************************************)
(* Program constants.                                                      *)
(***************************************************************************)
PROBE_TTL == 1000
DEL_RCPT_STAT_OK == 0
DEL_RCPT_STAT_DEFER == 1
DEL_RCPT_STAT_BOUNCE == 2
DEL_RCPT_STAT_TODO == 3

NULL == "NULL"

(***************************************************************************)
(* C library: decimal output of %d and %ld, and atoi()/atol().             *)
(***************************************************************************)
Digits == <<"0", "1", "2", "3", "4", "5", "6", "7", "8", "9">>

IsDigit(c) == \E i \in 1..10 : Digits[i] = c

DigitVal(c) == (CHOOSE i \in 1..10 : Digits[i] = c) - 1

IsSpace(c) == c \in {" ", "\t", "\n", "\r"}

RECURSIVE FmtNat(_)
FmtNat(n) ==
    IF n < 10 THEN <<Digits[n + 1]>>
    ELSE FmtNat(n \div 10) \o <<Digits[(n % 10) + 1]>>

FmtLong(n) == IF n < 0 THEN <<"-">> \o FmtNat(-n) ELSE FmtNat(n)

RECURSIVE SkipSpace(_)
SkipSpace(s) ==
    IF s # <<>> /\ IsSpace(Head(s)) THEN SkipSpace(Tail(s)) ELSE s

RECURSIVE DigitsValue(_, _)
DigitsValue(s, acc) ==
    IF s # <<>> /\ IsDigit(Head(s))
    THEN DigitsValue(Tail(s), acc * 10 + DigitVal(Head(s)))
    ELSE acc

atol(str) ==
    LET s == SkipSpace(str)
    IN  IF s # <<>> /\ Head(s) = "-" THEN 0 - DigitsValue(Tail(s), 0)
        ELSE IF s # <<>> /\ Head(s) = "+" THEN DigitsValue(Tail(s), 0)
        ELSE DigitsValue(s, 0)

atoi(str) == atol(str)

(***************************************************************************)
(* split_at(string, delimiter) cuts the string at its first delimiter and  *)
(* returns what follows it, or a null pointer when there is none.          *)
(* SplitPos is the position of that delimiter from position "from" on,     *)
(* 0 when there is none.                                                   *)
(***************************************************************************)
RECURSIVE SplitPos(_, _, _)
SplitPos(s, c, from) ==
    IF from > Len(s) THEN 0
    ELSE IF s[from] = c THEN from
    ELSE SplitPos(s, c, from + 1)

(***************************************************************************)
(* verify.c: the entry codec.                                              *)
(***************************************************************************)
STATUS_FROM_RAW_ENTRY(e) == atoi(e)

verify_make_entry(status, probed, updated, text) ==
    FmtLong(status) \o <<":">> \o FmtLong(probed) \o <<":">>
        \o FmtLong(updated) \o <<":">> \o text

ParseFailed == [rc |-> -1, status |-> 0, probed |-> 0, updated |-> 0, text |-> <<>>]

IsRcptStatus(status) ==
    \/ status = DEL_RCPT_STAT_OK
    \/ status = DEL_RCPT_STAT_DEFER
    \/ status = DEL_RCPT_STAT_BOUNCE
    \/ status = DEL_RCPT_STAT_TODO

\* A variant that takes the text from the last colon on, used to test C9.
verify_parse_entry_LastColon(buf) ==
    LET c1 == SplitPos(buf, ":", 1)
        c2 == IF c1 = 0 THEN 0 ELSE SplitPos(buf, ":", c1 + 1)
        c3 == IF c2 = 0 THEN 0 ELSE SplitPos(buf, ":", c2 + 1)
        cl == IF c3 = 0 THEN 0
              ELSE CHOOSE i \in c3..Len(buf) :
                       buf[i] = ":" /\ \A j \in (i + 1)..Len(buf) : buf[j] # ":"
        status == atoi(SubSeq(buf, 1, c1 - 1))
    IN  IF c3 # 0 /\ IsRcptStatus(status)
        THEN [rc |-> 0,
              status |-> status,
              probed |-> atol(SubSeq(buf, c1 + 1, c2 - 1)),
              updated |-> atol(SubSeq(buf, c2 + 1, c3 - 1)),
              text |-> SubSeq(buf, cl + 1, Len(buf))]
        ELSE ParseFailed

\* c1, c2, c3 are where the three split_at calls cut buf. The test
\* "(probed || updated)" of the source is on two pointers that are never
\* null: it is always true and leaves the result as it is.
verify_parse_entry(buf) ==
    LET c1 == SplitPos(buf, ":", 1)
        c2 == IF c1 = 0 THEN 0 ELSE SplitPos(buf, ":", c1 + 1)
        c3 == IF c2 = 0 THEN 0 ELSE SplitPos(buf, ":", c2 + 1)
        status == atoi(SubSeq(buf, 1, c1 - 1))
    IN  IF c3 # 0 /\ IsRcptStatus(status)
        THEN [rc |-> 0,
              status |-> status,
              probed |-> atol(SubSeq(buf, c1 + 1, c2 - 1)),
              updated |-> atol(SubSeq(buf, c2 + 1, c3 - 1)),
              text |-> SubSeq(buf, c3 + 1, Len(buf))]
        ELSE ParseFailed

\* A variant that also names TODO, used to test C8.
verify_stat2name_NamesTodo(addr_status) ==
    IF addr_status = DEL_RCPT_STAT_OK THEN "deliverable"
    ELSE IF addr_status = DEL_RCPT_STAT_DEFER THEN "undeliverable"
    ELSE IF addr_status = DEL_RCPT_STAT_BOUNCE THEN "undeliverable"
    ELSE IF addr_status = DEL_RCPT_STAT_TODO THEN "undetermined"
    ELSE NULL

verify_stat2name(addr_status) ==
    IF addr_status = DEL_RCPT_STAT_OK THEN "deliverable"
    ELSE IF addr_status = DEL_RCPT_STAT_DEFER THEN "undeliverable"
    ELSE IF addr_status = DEL_RCPT_STAT_BOUNCE THEN "undeliverable"
    ELSE NULL

(***************************************************************************)
(* The lookup table behind verify_map: dict_get, dict_put, dict_del.       *)
(***************************************************************************)
dict_get(map, key) == IF key \in DOMAIN map THEN map[key] ELSE NULL

\* A variant that writes the value under every key, used to test C30.
dict_put_All(map, key, value) == [k \in DOMAIN map \cup {key} |-> value]

dict_put(map, key, value) ==
    [k \in DOMAIN map \cup {key} |-> IF k = key THEN value ELSE map[k]]

dict_del(map, key) == [k \in DOMAIN map \ {key} |-> map[k]]

(***************************************************************************)
(* Inputs: addresses, status codes and texts of requests, clock steps,     *)
(* the settings of main.cf.                                                *)
(***************************************************************************)
Addrs == {"u@x"}

StatusArgs == 0..MaxStatusArg

TextOk == <<"o", "k">>
TextColon == <<"4", ":", "5">>
Texts == {TextOk, TextColon}

TextInProgress ==
    <<"A", "d", "d", "r", "e", "s", "s", " ",
      "v", "e", "r", "i", "f", "i", "c", "a", "t", "i", "o", "n", " ",
      "i", "n", " ", "p", "r", "o", "g", "r", "e", "s", "s">>

\* Two seconds in each period of PROBE_TTL seconds: 1, 2, 1001, 1002, ...
ClockAt(i) == (i \div 2) * PROBE_TTL + (i % 2) + 1
ClockValues == {ClockAt(i) : i \in 0..MaxClock}
Durations == {1, PROBE_TTL + 1}

PostResults == {"queued", "fopen_failed", "fclose_failed"}

(***************************************************************************)
(* verify.c: verify_update_service.                                        *)
(***************************************************************************)
\* A variant without the protective rule, used to test C1.
UpdateIsWritten_Unprotected(addr_status, raw_data) == TRUE

\* Lines 277-279: the update is written unless it is a failed probe for an
\* address whose stored status reads OK.
UpdateIsWritten(addr_status, raw_data) ==
    \/ addr_status = DEL_RCPT_STAT_OK
    \/ raw_data = NULL
    \/ STATUS_FROM_RAW_ENTRY(raw_data) # DEL_RCPT_STAT_OK

\* A variant that stamps the probe time too, used to test C6.
UpdateEntry_StampsProbed(addr_status, t, text) ==
    verify_make_entry(addr_status, t, t, text)

UpdateEntry(addr_status, t, text) == verify_make_entry(addr_status, 0, t, text)

NoHist == [probe_at |-> -1, probe_miss |-> FALSE, upd_since |-> FALSE, missed |-> FALSE]

\* last: op, addr, addr_status, text are the request; before is the stored
\* value the request found and prev the history of its address; status,
\* reply_status, reply_text are the reply (status NULL: no reply was written);
\* probe is what became of the probe, nput and ndel count dict_put and dict_del.
NoRequest ==
    [op |-> "none", addr |-> NULL, addr_status |-> 0, text |-> <<>>,
     before |-> NULL, prev |-> NoHist,
     status |-> NULL, reply_status |-> 0, reply_text |-> <<>>,
     probe |-> "none", nput |-> 0, ndel |-> 0]

verify_update_service(addr, addr_status, text) ==
    LET raw_data == dict_get(verify_map, addr)
        valid == verify_stat2name(addr_status) # NULL
        written == valid /\ UpdateIsWritten(addr_status, raw_data)
    IN  /\ verify_map' = IF written
                         THEN dict_put(verify_map, addr,
                                       UpdateEntry(addr_status, now, text))
                         ELSE verify_map
        /\ last' = [NoRequest EXCEPT
                      !.op = "update", !.addr = addr, !.addr_status = addr_status,
                      !.text = text, !.before = raw_data,
                      !.status = IF valid THEN "VRFY_STAT_OK" ELSE "VRFY_STAT_BAD",
                      !.nput = IF written THEN 1 ELSE 0]
        /\ hist' = [hist EXCEPT ![addr].upd_since = TRUE, ![addr].missed = FALSE]
        /\ UNCHANGED <<now, verifyConf>>

\* Lines 258-262 and 292: attr_scan did not deliver the three attributes.
verify_update_unscanned ==
    /\ last' = [NoRequest EXCEPT !.op = "update"]
    /\ UNCHANGED <<now, verify_map, verifyConf, hist>>

(***************************************************************************)
(* verify.c: verify_query_service.                                         *)
(***************************************************************************)
POSITIVE_ENTRY_EXPIRED(addr_status, updated, t) ==
    addr_status = DEL_RCPT_STAT_OK /\ updated + var_verify_pos_exp < t

NEGATIVE_ENTRY_EXPIRED(addr_status, updated, t) ==
    addr_status # DEL_RCPT_STAT_OK /\ updated + var_verify_neg_exp < t

\* A variant that refreshes at the expiry time only, used to test C7.
POSITIVE_REFRESH_NEEDED_AtExpiry(addr_status, updated, t) ==
    addr_status = DEL_RCPT_STAT_OK /\ updated + var_verify_pos_exp < t

POSITIVE_REFRESH_NEEDED(addr_status, updated, t) ==
    addr_status = DEL_RCPT_STAT_OK /\ updated + var_verify_pos_try < t

NEGATIVE_REFRESH_NEEDED(addr_status, updated, t) ==
    addr_status # DEL_RCPT_STAT_OK /\ updated + var_verify_neg_try < t

\* A variant that waits for the clock to move only, used to test C2.
SafeToProbe_NoTtl(probed, t) == t - probed > 0

\* Line 344: a probe that went out PROBE_TTL seconds ago or less is outstanding.
SafeToProbe(probed, t) == t - probed > PROBE_TTL

\* Lines 339-346: no usable record exists; e is what verify_parse_entry
\* made of raw_data.
NoUsableRecord(raw_data, e, t) ==
    \/ raw_data = NULL
    \/ e.rc < 0
    \/ /\ SafeToProbe(e.probed, t)
       /\ \/ POSITIVE_ENTRY_EXPIRED(e.status, e.updated, t)
          \/ NEGATIVE_ENTRY_EXPIRED(e.status, e.updated, t)

DefaultRecord ==
    [status |-> DEL_RCPT_STAT_TODO, probed |-> 0, updated |-> 0,
     text |-> TextInProgress]

\* Lines 339-350: the record the reply and the refresh are computed from.
QueryRecord(raw_data, e, t) ==
    IF NoUsableRecord(raw_data, e, t) THEN DefaultRecord
    ELSE [status |-> e.status, probed |-> e.probed, updated |-> e.updated,
          text |-> e.text]

\* A variant that never purges, used to test C5.
PurgeEntry_Never(raw_data, e, t) == FALSE

\* Lines 351-352.
PurgeEntry(raw_data, e, t) ==
    NoUsableRecord(raw_data, e, t) /\ raw_data # NULL /\ var_verify_neg_cache = 0

\* Lines 384-386.
RefreshNeeded(rec, t) ==
    /\ SafeToProbe(rec.probed, t)
    /\ \/ POSITIVE_REFRESH_NEEDED(rec.status, rec.updated, t)
       \/ NEGATIVE_REFRESH_NEEDED(rec.status, rec.updated, t)

\* A variant that records a probe only for an entry with a result, and one
\* that records every queued probe, used to test C3 and C4.
WriteBack_ResultOnly(rec, post) == post = "queued" /\ rec.updated # 0

WriteBack_Always(rec, post) == post = "queued"

\* A variant that records a probe that could not be queued, used to test C18.
WriteBack_EvenIfFailed(rec, post) == rec.updated # 0 \/ var_verify_neg_cache # 0

\* Lines 390-395: the probe was queued and its time is to be recorded.
WriteBack(rec, post) ==
    post = "queued" /\ (rec.updated # 0 \/ var_verify_neg_cache # 0)

\* post is what became of the probe: the result of post_mail_fopen and
\* post_mail_fclose when one is sent, "none" when none is.
verify_query_service(addr) ==
    LET raw_data == dict_get(verify_map, addr)
        e == IF raw_data = NULL THEN ParseFailed ELSE verify_parse_entry(raw_data)
        rec == QueryRecord(raw_data, e, now)
        purge == PurgeEntry(raw_data, e, now)
        probe == RefreshNeeded(rec, now)
        map1 == IF purge THEN dict_del(verify_map, addr) ELSE verify_map
    IN  \E post \in IF probe THEN PostResults ELSE {"none"} :
            LET put == probe /\ WriteBack(rec, post)
                queued == probe /\ post = "queued"
            IN  /\ verify_map' =
                       IF put
                       THEN dict_put(map1, addr,
                                     verify_make_entry(rec.status, now,
                                                       rec.updated, rec.text))
                       ELSE map1
                /\ last' = [NoRequest EXCEPT
                              !.op = "query", !.addr = addr,
                              !.before = raw_data, !.prev = hist[addr],
                              !.status = "VRFY_STAT_OK",
                              !.reply_status = rec.status,
                              !.reply_text = rec.text,
                              !.probe = post,
                              !.nput = IF put THEN 1 ELSE 0,
                              !.ndel = IF purge THEN 1 ELSE 0]
                /\ hist' = [hist EXCEPT
                              ![addr].probe_at = IF queued THEN now ELSE @,
                              ![addr].probe_miss =
                                  IF queued THEN raw_data = NULL ELSE @,
                              ![addr].upd_since = IF queued THEN FALSE ELSE @,
                              ![addr].missed = @ \/ raw_data = NULL]
                /\ UNCHANGED <<now, verifyConf>>

\* Lines 312-314 and 404: attr_scan did not deliver the address.
verify_query_unscanned ==
    /\ last' = [NoRequest EXCEPT !.op = "query"]
    /\ UNCHANGED <<now, verify_map, verifyConf, hist>>

(***************************************************************************)
(* verify.c: verify_service, the dispatch on the request name.             *)
(***************************************************************************)
VRFY_REQ_UPDATE == "update"
VRFY_REQ_QUERY == "query"
RequestNames == {VRFY_REQ_UPDATE, VRFY_REQ_QUERY, "bogus"}

VerifyUpdate ==
    \/ \E addr \in Addrs, addr_status \in StatusArgs, text \in Texts :
           verify_update_service(addr, addr_status, text)
    \/ verify_update_unscanned

VerifyQuery ==
    \/ \E addr \in Addrs : verify_query_service(addr)
    \/ verify_query_unscanned

VerifyUnrecognized ==
    \E request \in RequestNames \ {VRFY_REQ_UPDATE, VRFY_REQ_QUERY} :
        /\ last' = [NoRequest EXCEPT !.op = request,
                                     !.status = "VRFY_STAT_BAD"]
        /\ UNCHANGED <<now, verify_map, verifyConf, hist>>

\* The clock moves on between two requests.
Tick ==
    \E t \in ClockValues :
        /\ t > now
        /\ now' = t
        /\ last' = NoRequest
        /\ UNCHANGED <<verify_map, verifyConf, hist>>

\* pre_jail_init has opened an empty table; main.cf has been read.
InitVerify ==
    /\ now = ClockAt(0)
    /\ verify_map = <<>>
    /\ var_verify_neg_cache \in {0, 1}
    /\ var_verify_pos_exp \in Durations
    /\ var_verify_pos_try \in Durations
    /\ var_verify_neg_exp \in Durations
    /\ var_verify_neg_try \in Durations
    /\ var_verify_pos_try <= var_verify_pos_exp
    /\ var_verify_neg_try <= var_verify_neg_exp
    /\ last = NoRequest
    /\ hist = [a \in Addrs |-> NoHist]

(***************************************************************************)
(* The entry codec on its own: an entry (status, probed, updated, text) is *)
(* formatted by verify_make_entry and the result read by                   *)
(* verify_parse_entry.                                                     *)
(***************************************************************************)
MaxCodecStatus == 4  \* the status codes formatted are 0..MaxCodecStatus
MaxCodecLong == 10   \* the time stamps formatted are -1..MaxCodecLong
MaxCodecText == 2    \* the texts formatted have at most MaxCodecText characters

CodecStatuses == 0..MaxCodecStatus

CodecLongs == -1..MaxCodecLong

CodecAlphabet == {":", "1", "a"}

CodecTexts == UNION {[1..n -> CodecAlphabet] : n \in 0..MaxCodecText}

CodecIdle ==
    [stage |-> "idle", status |-> 0, probed |-> 0, updated |-> 0,
     text |-> <<>>, buf |-> <<>>, out |-> ParseFailed]

InitCodec ==
    codec \in {[CodecIdle EXCEPT !.stage = "input", !.status = s, !.probed = p,
                                 !.updated = u, !.text = t] :
                   s \in CodecStatuses, p \in CodecLongs, u \in CodecLongs,
                   t \in CodecTexts}

CodecMakeEntry ==
    /\ codec.stage = "input"
    /\ codec' = [codec EXCEPT
                     !.stage = "made",
                     !.buf = verify_make_entry(codec.status, codec.probed,
                                               codec.updated, codec.text)]

CodecParseEntry ==
    /\ codec.stage = "made"
    /\ codec' = [codec EXCEPT !.stage = "parsed",
                              !.out = verify_parse_entry(codec.buf)]

(***************************************************************************)
(* proxymap.c: strings.                                                    *)
(***************************************************************************)
MaxProxyPrefix == 2  \* a request names a table behind 0..MaxProxyPrefix "proxy:"
MaxProxyTokens == 2  \* proxy_read_maps lists at most MaxProxyTokens tokens

PROXY_COLON == <<"p", "r", "o", "x", "y", ":">>

PROXY_COLON_LEN == Len(PROXY_COLON)

\* strncmp(s, PROXY_COLON, PROXY_COLON_LEN) == 0
HasProxyColon(s) ==
    Len(s) >= PROXY_COLON_LEN /\ SubSeq(s, 1, PROXY_COLON_LEN) = PROXY_COLON

SkipProxyColon(s) == SubSeq(s, PROXY_COLON_LEN + 1, Len(s))

\* A variant that takes off one prefix only, used to test C10.
StripProxy_Once(s) == IF HasProxyColon(s) THEN SkipProxyColon(s) ELSE s

\* proxy_map_find: while (strncmp(...) == 0) map_type_name += PROXY_COLON_LEN
RECURSIVE StripProxy(_)
StripProxy(s) == IF HasProxyColon(s) THEN StripProxy(SkipProxyColon(s)) ELSE s

\* post_jail_init: do type_name += PROXY_COLON_LEN; while (!strncmp(...))
RECURSIVE StripProxyDo(_)
StripProxyDo(s) ==
    LET rest == SkipProxyColon(s)
    IN  IF HasProxyColon(rest) THEN StripProxyDo(rest) ELSE rest

\* strchr(s, c) != 0
strchr(s, c) == SplitPos(s, c, 1) # 0

RECURSIVE FmtOct(_)
FmtOct(n) ==
    IF n < 8 THEN <<Digits[n + 1]>>
    ELSE FmtOct(n \div 8) \o <<Digits[(n % 8) + 1]>>

\* A variant that leaves the flags out of the key, used to test C28.
MapTypeNameFlags_NoFlags(map_type_name, request_flags) ==
    map_type_name \o <<":", "0">>

\* vstring_sprintf(map_type_name_flags, "%s:%o", map_type_name, request_flags)
MapTypeNameFlags(map_type_name, request_flags) ==
    map_type_name \o <<":">> \o FmtOct(request_flags)

\* mystrtok(&bp, sep), called until it returns 0: the tokens of a string.
IsSep(c) == c \in {" ", "\t", "\r", "\n"}

RECURSIVE SkipSep(_)
SkipSep(s) == IF s # <<>> /\ IsSep(Head(s)) THEN SkipSep(Tail(s)) ELSE s

RECURSIVE TokenEnd(_, _)
TokenEnd(s, i) ==
    IF i > Len(s) \/ IsSep(s[i]) THEN i - 1 ELSE TokenEnd(s, i + 1)

RECURSIVE mystrtok(_)
mystrtok(bp) ==
    LET s == SkipSep(bp)
    IN  IF s = <<>> THEN <<>>
        ELSE LET e == TokenEnd(s, 1)
             IN  <<SubSeq(s, 1, e)>> \o mystrtok(SubSeq(s, e + 2, Len(s)))

\* A variant that finds every name, used to test C11.
htable_locate_Any(table, name) == TRUE

\* htable_locate(table, name) != 0
htable_locate(table, name) == name \in table

\* post_jail_init, one round of its loop: the table after type_name.
ApproveToken(table, type_name) ==
    IF ~HasProxyColon(type_name) THEN table
    ELSE LET name == StripProxyDo(type_name)
         IN  IF strchr(name, ":") /\ ~htable_locate(table, name)
             THEN table \cup {name}
             ELSE table

RECURSIVE ApproveTokens(_, _)
ApproveTokens(table, tokens) ==
    IF tokens = <<>> THEN table
    ELSE ApproveTokens(ApproveToken(table, Head(tokens)), Tail(tokens))

\* post_jail_init: the keys of proxy_read_maps built from var_proxy_read_maps
post_jail_init(read_maps) == ApproveTokens({}, mystrtok(read_maps))

(***************************************************************************)
(* proxymap.c: what requests and main.cf may hold.                         *)
(***************************************************************************)
NameHashA == <<"h", ":", "a">>
NameCdbB == <<"c", ":", "b">>
NameBare == <<"x">>

\* The table references behind the "proxy:" prefixes of a request.
ProxyBases == {NameHashA, NameCdbB, NameBare}

RECURSIVE ProxyPrefixed(_, _)
ProxyPrefixed(n, name) ==
    IF n = 0 THEN name ELSE PROXY_COLON \o ProxyPrefixed(n - 1, name)

\* The tokens of proxy_read_maps: with one prefix, with two, with none, and
\* with no type:name behind the prefix.
ProxyTokens ==
    {ProxyPrefixed(1, NameHashA), ProxyPrefixed(2, NameCdbB), NameHashA,
     ProxyPrefixed(1, NameBare)}

RECURSIVE JoinTokens(_)
JoinTokens(tokens) ==
    IF tokens = <<>> THEN <<>>
    ELSE IF Len(tokens) = 1 THEN Head(tokens)
    ELSE Head(tokens) \o <<" ">> \o JoinTokens(Tail(tokens))

ProxyConfigs ==
    {JoinTokens(ts) : ts \in UNION {[1..n -> ProxyTokens] : n \in 0..MaxProxyTokens}}

ProxyFlags == {0, 8}

ProxyKeys == {"k"}

\* What dict_get(dict, key) gives: a value, or 0 with dict_errno = 0, or 0
\* with dict_errno # 0.
LookupResults == {"v", "notfound", "error"}

NoProxyRequest ==
    [op |-> "none", n |-> 0, base |-> <<>>, flags |-> 0, key |-> NULL,
     name |-> <<>>, status |-> NULL, value |-> "", reply_flags |-> 0,
     opened |-> FALSE, result |-> "none"]

(***************************************************************************)
(* proxymap.c: proxy_map_find. The result is the handle (NoDict for the     *)
(* null pointer), the status, the canonical name, whether dict_open was    *)
(* called, and the handle table and the dict_open calls afterwards.        *)
(***************************************************************************)
NoDict == [type_name |-> <<>>, flags |-> 0]

\* A variant that finds no handle, used to test C12.
dict_handle_None(table, dict_name) == NoDict

\* dict_handle(dict_name): the registered handle, or 0
dict_handle(table, dict_name) ==
    IF dict_name \in DOMAIN table THEN table[dict_name] ELSE NoDict

\* dict_open(map_type_name, READ_OPEN_FLAGS, request_flags)
dict_open(map_type_name, request_flags) ==
    [type_name |-> map_type_name, flags |-> request_flags]

\* One more dict_open call under dict_name.
CountOpen(opens, dict_name) ==
    [k \in DOMAIN opens \cup {dict_name} |->
        IF k = dict_name
        THEN (IF k \in DOMAIN opens THEN opens[k] ELSE 0) + 1
        ELSE opens[k]]

\* A variant that looks for the name in the approved list before it looks
\* for the ':', used to test C27.
proxy_map_find_DenyFirst(map_type_name, request_flags) ==
    LET name == StripProxy(map_type_name)
        map_type_name_flags == MapTypeNameFlags(name, request_flags)
        known == dict_handle(dict_table, map_type_name_flags) # NoDict
        dict == IF known THEN dict_handle(dict_table, map_type_name_flags)
                ELSE dict_open(name, request_flags)
    IN  IF ~htable_locate(proxy_read_maps, name)
        THEN [dict |-> NoDict, stat |-> "PROXY_STAT_DENY", name |-> name,
              opened |-> FALSE, table |-> dict_table, opens |-> dict_opens]
        ELSE [dict |-> dict, stat |-> NULL, name |-> name,
              opened |-> ~known,
              table |-> [k \in DOMAIN dict_table \cup {map_type_name_flags} |->
                            IF k = map_type_name_flags THEN dict
                            ELSE dict_table[k]],
              opens |-> IF known THEN dict_opens
                        ELSE CountOpen(dict_opens, map_type_name_flags)]

proxy_map_find(map_type_name, request_flags) ==
    LET name == StripProxy(map_type_name)
        map_type_name_flags == MapTypeNameFlags(name, request_flags)
        known == dict_handle(dict_table, map_type_name_flags) # NoDict
        dict == IF known THEN dict_handle(dict_table, map_type_name_flags)
                ELSE dict_open(name, request_flags)
    IN  IF ~strchr(name, ":")
        THEN [dict |-> NoDict, stat |-> "PROXY_STAT_BAD", name |-> name,
              opened |-> FALSE, table |-> dict_table, opens |-> dict_opens]
        ELSE IF ~htable_locate(proxy_read_maps, name)
        THEN [dict |-> NoDict, stat |-> "PROXY_STAT_DENY", name |-> name,
              opened |-> FALSE, table |-> dict_table, opens |-> dict_opens]
        ELSE [dict |-> dict, stat |-> NULL, name |-> name,
              opened |-> ~known,
              table |-> [k \in DOMAIN dict_table \cup {map_type_name_flags} |->
                            IF k = map_type_name_flags THEN dict
                            ELSE dict_table[k]],
              opens |-> IF known THEN dict_opens
                        ELSE CountOpen(dict_opens, map_type_name_flags)]

(***************************************************************************)
(* proxymap.c: proxymap_lookup_service.                                    *)
(***************************************************************************)
\* A variant that takes a failed get for a missing key, used to test C13.
LookupReplyStatus_NoRetry(result) ==
    IF result \notin {"notfound", "error"} THEN "PROXY_STAT_OK"
    ELSE "PROXY_STAT_NOKEY"

\* Lines 246-254: the status for what dict_get gave.
LookupReplyStatus(result) ==
    IF result \notin {"notfound", "error"} THEN "PROXY_STAT_OK"
    ELSE IF result = "notfound" THEN "PROXY_STAT_NOKEY"
    ELSE "PROXY_STAT_RETRY"

proxymap_lookup_service(n, base, request_flags, request_key, result) ==
    LET request_map == ProxyPrefixed(n, base)
        found == proxy_map_find(request_map, request_flags)
        reply_status ==
            IF found.dict = NoDict THEN found.stat ELSE LookupReplyStatus(result)
        reply_value == IF reply_status = "PROXY_STAT_OK" THEN result ELSE ""
    IN  /\ proxy_up
        /\ proxy_conn
        /\ found.dict = NoDict => result = "v"      \* dict_get is not called
        /\ dict_table' = found.table
        /\ plast' = [NoProxyRequest EXCEPT
                         !.op = "lookup", !.n = n, !.base = base,
                         !.flags = request_flags, !.key = request_key,
                         !.name = found.name, !.status = reply_status,
                         !.value = reply_value, !.opened = found.opened,
                         !.result = IF found.dict = NoDict THEN "none" ELSE result]
        /\ dict_opens' = found.opens
        /\ UNCHANGED <<var_proxy_read_maps, proxy_read_maps, proxy_up, proxy_conn,
                       proxy_changed>>

\* attr_scan did not return 3
proxymap_lookup_unscanned ==
    /\ proxy_up
    /\ proxy_conn
    /\ plast' = [NoProxyRequest EXCEPT !.op = "lookup",
                                       !.status = "PROXY_STAT_BAD"]
    /\ UNCHANGED <<var_proxy_read_maps, proxy_read_maps, dict_table, dict_opens,
                   proxy_up, proxy_conn, proxy_changed>>

(***************************************************************************)
(* proxymap.c: proxymap_open_service.                                      *)
(***************************************************************************)
proxymap_open_service(n, base, request_flags) ==
    LET request_map == ProxyPrefixed(n, base)
        found == proxy_map_find(request_map, request_flags)
        reply_status == IF found.dict = NoDict THEN found.stat ELSE "PROXY_STAT_OK"
        reply_flags == IF found.dict = NoDict THEN 0 ELSE found.dict.flags
    IN  /\ proxy_up
        /\ proxy_conn
        /\ dict_table' = found.table
        /\ plast' = [NoProxyRequest EXCEPT
                         !.op = "open", !.n = n, !.base = base,
                         !.flags = request_flags, !.name = found.name,
                         !.status = reply_status, !.reply_flags = reply_flags,
                         !.opened = found.opened]
        /\ dict_opens' = found.opens
        /\ UNCHANGED <<var_proxy_read_maps, proxy_read_maps, proxy_up, proxy_conn,
                       proxy_changed>>

\* attr_scan did not return 2
proxymap_open_unscanned ==
    /\ proxy_up
    /\ proxy_conn
    /\ plast' = [NoProxyRequest EXCEPT !.op = "open",
                                       !.status = "PROXY_STAT_BAD"]
    /\ UNCHANGED <<var_proxy_read_maps, proxy_read_maps, dict_table, dict_opens,
                   proxy_up, proxy_conn, proxy_changed>>

(***************************************************************************)
(* proxymap.c: proxymap_service, pre_accept, and the start of the process. *)
(***************************************************************************)
PROXY_REQ_LOOKUP == "lookup"
PROXY_REQ_OPEN == "open"
ProxyRequestNames == {PROXY_REQ_LOOKUP, PROXY_REQ_OPEN, "bogus"}

ProxyLookup ==
    \/ \E n \in 0..MaxProxyPrefix, base \in ProxyBases, request_flags \in ProxyFlags,
          request_key \in ProxyKeys, result \in LookupResults :
           proxymap_lookup_service(n, base, request_flags, request_key, result)
    \/ proxymap_lookup_unscanned

ProxyOpen ==
    \/ \E n \in 0..MaxProxyPrefix, base \in ProxyBases, request_flags \in ProxyFlags :
           proxymap_open_service(n, base, request_flags)
    \/ proxymap_open_unscanned

ProxyUnrecognized ==
    \E request \in ProxyRequestNames \ {PROXY_REQ_LOOKUP, PROXY_REQ_OPEN} :
        /\ proxy_up
        /\ proxy_conn
        /\ plast' = [NoProxyRequest EXCEPT !.op = request,
                                           !.status = "PROXY_STAT_BAD"]
        /\ UNCHANGED <<var_proxy_read_maps, proxy_read_maps, dict_table, dict_opens,
                       proxy_up, proxy_conn, proxy_changed>>

\* A table that this process has opened changes on disk: dict_changed()
\* returns true from now on.
TableChange ==
    /\ proxy_up
    /\ dict_table # <<>>
    /\ ~proxy_changed
    /\ proxy_changed' = TRUE
    /\ plast' = NoProxyRequest
    /\ UNCHANGED <<var_proxy_read_maps, proxy_read_maps, dict_table, dict_opens,
                   proxy_up, proxy_conn>>

\* A variant that accepts the connection whatever dict_changed() returns,
\* used to test C15.
pre_accept_Ignore ==
    /\ proxy_up
    /\ proxy_conn' = TRUE
    /\ plast' = [NoProxyRequest EXCEPT !.op = "accept"]
    /\ UNCHANGED <<var_proxy_read_maps, proxy_read_maps, dict_table, dict_opens,
                   proxy_up, proxy_changed>>

\* pre_accept, called before a connection is accepted. When dict_changed()
\* is true: exit(0), and the handles and the approved list go with the
\* process. When it is false the connection is accepted.
pre_accept ==
    /\ proxy_up
    /\ IF proxy_changed
       THEN /\ proxy_up' = FALSE
            /\ proxy_conn' = FALSE
            /\ dict_table' = <<>>
            /\ dict_opens' = <<>>
            /\ proxy_read_maps' = {}
            /\ plast' = [NoProxyRequest EXCEPT !.op = "exit"]
            /\ UNCHANGED <<var_proxy_read_maps, proxy_changed>>
       ELSE /\ proxy_conn' = TRUE
            /\ plast' = [NoProxyRequest EXCEPT !.op = "accept"]
            /\ UNCHANGED <<var_proxy_read_maps, proxy_read_maps, dict_table,
                           dict_opens, proxy_up, proxy_changed>>

\* A new process: main reads proxy_read_maps, post_jail_init builds the list.
ProxyStart ==
    /\ ~proxy_up
    /\ var_proxy_read_maps' \in ProxyConfigs
    /\ proxy_read_maps' = post_jail_init(var_proxy_read_maps')
    /\ dict_table' = <<>>
    /\ dict_opens' = <<>>
    /\ proxy_up' = TRUE
    /\ proxy_conn' = FALSE
    /\ proxy_changed' = FALSE
    /\ plast' = NoProxyRequest

InitProxy ==
    /\ var_proxy_read_maps \in ProxyConfigs
    /\ proxy_read_maps = post_jail_init(var_proxy_read_maps)
    /\ dict_table = <<>>
    /\ dict_opens = <<>>
    /\ proxy_up = TRUE
    /\ proxy_conn = FALSE
    /\ proxy_changed = FALSE
    /\ plast = NoProxyRequest

ProxyIdle ==
    /\ var_proxy_read_maps = <<>>
    /\ proxy_read_maps = {}
    /\ dict_table = <<>>
    /\ dict_opens = <<>>
    /\ proxy_up = FALSE
    /\ proxy_conn = FALSE
    /\ proxy_changed = FALSE
    /\ plast = NoProxyRequest

(***************************************************************************)
(* deliver_flock.c: deliver_flock(fd, lock_style, why). The calls it makes *)
(* are kept in flock.calls, in the order made.                             *)
(***************************************************************************)
MaxFlockTries == 3   \* var_flock_tries is -1..MaxFlockTries

FlockTries == -1..MaxFlockTries

FlockDelays == {1, 2}

FlockStyles == {"MYFLOCK_STYLE_FLOCK", "MYFLOCK_STYLE_FCNTL"}

FlockIdle ==
    [pc |-> "idle", i |-> 0, var_flock_tries |-> 0, var_flock_delay |-> 0,
     lock_style |-> NULL, why |-> NULL, calls |-> <<>>, ret |-> NULL]

InitFlock ==
    flock \in {[FlockIdle EXCEPT !.pc = "loop", !.var_flock_tries = tries,
                                 !.var_flock_delay = delay, !.lock_style = style,
                                 !.why = why] :
                   tries \in FlockTries, delay \in FlockDelays,
                   style \in FlockStyles, why \in {NULL, ""}}

\* A variant that goes round once more, used to test C16.
FlockGivesUp_Late(i, tries) == i > tries

\* if (i >= var_flock_tries) break
FlockGivesUp(i, tries) == i >= tries

\* The loop is left: the reason is stored when there is room for it.
deliver_flock_fail ==
    /\ flock.pc = "loop"
    /\ FlockGivesUp(flock.i, flock.var_flock_tries)
    /\ flock' = [flock EXCEPT
                     !.pc = "done",
                     !.why = IF flock.why # NULL
                             THEN "unable to lock for exclusive access"
                             ELSE NULL,
                     !.ret = -1]

\* if (i > 0) sleep(var_flock_delay)
deliver_flock_sleep ==
    /\ flock.pc = "loop"
    /\ ~FlockGivesUp(flock.i, flock.var_flock_tries)
    /\ flock.i > 0
    /\ flock' = [flock EXCEPT
                     !.pc = "lock",
                     !.calls = Append(@, [call |-> "sleep",
                                          arg |-> flock.var_flock_delay,
                                          ok |-> TRUE])]

\* myflock(fd, lock_style, MYFLOCK_OP_EXCLUSIVE | MYFLOCK_OP_NOWAIT): on
\* success return (0), else i++ and round again.
deliver_flock_lock ==
    /\ \/ flock.pc = "lock"
       \/ /\ flock.pc = "loop"
          /\ ~FlockGivesUp(flock.i, flock.var_flock_tries)
          /\ flock.i = 0
    /\ \E ok \in BOOLEAN :
           flock' = [flock EXCEPT
                        !.pc = IF ok THEN "done" ELSE "loop",
                        !.i = IF ok THEN @ ELSE @ + 1,
                        !.calls = Append(@, [call |-> "myflock",
                                             arg |-> "EXCLUSIVE|NOWAIT",
                                             ok |-> ok]),
                        !.ret = IF ok THEN 0 ELSE @]

(***************************************************************************)
(* virtual8_maps_find.c: virtual8_maps_find(maps, recipient). The lookup   *)
(* tables are a function from keys to what maps_find gives for them: a     *)
(* value, or MapsError when the lookup fails with dict_errno set; a key    *)
(* that is not in the function is not found.                               *)
(***************************************************************************)
MapsError == "dict_errno"

NotFound == [result |-> NULL, dict_errno |-> 0]

\* maps_find(maps, name, DICT_FLAG_FIXED) and the dict_errno it leaves
maps_find(maps, name) ==
    IF name \notin DOMAIN maps THEN NotFound
    ELSE IF maps[name] = MapsError THEN [result |-> NULL, dict_errno |-> 1]
    ELSE [result |-> maps[name], dict_errno |-> 0]

\* strrchr(s, c): the last position of c in s up to position i, 0 for none
RECURSIVE strrchrPos(_, _, _)
strrchrPos(s, c, i) ==
    IF i = 0 THEN 0
    ELSE IF s[i] = c THEN i
    ELSE strrchrPos(s, c, i - 1)

\* strip_addr(recipient, 0, delimiter): the address minus its extension,
\* which runs from the first delimiter of the localpart to the last '@';
\* a null pointer when the localpart has no delimiter.
strip_addr(full, delimiter) ==
    LET ratsign == strrchrPos(full, "@", Len(full))
        localpart == IF ratsign = 0 THEN full ELSE SubSeq(full, 1, ratsign - 1)
        extent == SplitPos(localpart, delimiter, 1)
    IN  IF extent = 0 THEN <<>>
        ELSE SubSeq(full, 1, extent - 1)
                 \o (IF ratsign = 0 THEN <<>> ELSE SubSeq(full, ratsign, Len(full)))

\* What a call of virtual8_maps_find gave: the result, the dict_errno it
\* left, and the names it gave to maps_find, in the order of the calls.
Virt8Return(found, names) ==
    [result |-> found.result, dict_errno |-> found.dict_errno, tried |-> names]

\* A variant that goes on to the next name after a lookup error, used to
\* test C29.
virtual8_maps_find_PastError(maps, var_rcpt_delim, recipient) ==
    LET bare == IF var_rcpt_delim # "" THEN strip_addr(recipient, var_rcpt_delim)
                ELSE <<>>
        before == IF bare # <<>> THEN <<bare>> ELSE <<>>
        first == maps_find(maps, bare)
        second == maps_find(maps, recipient)
        ratsign == strrchrPos(recipient, "@", Len(recipient))
        domain == SubSeq(recipient, ratsign, Len(recipient))
    IN  IF bare # <<>> /\ first.result # NULL
        THEN Virt8Return(first, before)
        ELSE IF second.result # NULL
        THEN Virt8Return(second, before \o <<recipient>>)
        ELSE IF ratsign = 0 THEN Virt8Return(NotFound, before \o <<recipient>>)
        ELSE Virt8Return(maps_find(maps, domain), before \o <<recipient, domain>>)

virtual8_maps_find(maps, var_rcpt_delim, recipient) ==
    LET bare == IF var_rcpt_delim # "" THEN strip_addr(recipient, var_rcpt_delim)
                ELSE <<>>
        before == IF bare # <<>> THEN <<bare>> ELSE <<>>
        first == maps_find(maps, bare)
        second == maps_find(maps, recipient)
        ratsign == strrchrPos(recipient, "@", Len(recipient))
        domain == SubSeq(recipient, ratsign, Len(recipient))
    IN  IF bare # <<>> /\ (first.result # NULL \/ first.dict_errno # 0)
        THEN Virt8Return(first, before)
        ELSE IF second.result # NULL \/ second.dict_errno # 0
        THEN Virt8Return(second, before \o <<recipient>>)
        ELSE IF ratsign = 0 THEN Virt8Return(NotFound, before \o <<recipient>>)
        ELSE Virt8Return(maps_find(maps, domain), before \o <<recipient, domain>>)

RcptExtended == <<"u", "+", "e", "@", "d">>
RcptBare == <<"u", "@", "d">>
RcptCatchAll == <<"@", "d">>
RcptLocal == <<"u", "+", "e">>
RcptLocalBare == <<"u">>

Virt8Names == {RcptExtended, RcptBare, RcptCatchAll, RcptLocalBare}

Virt8Values == {"m1", "m2", MapsError}

Virt8Maps == UNION {[names -> Virt8Values] : names \in SUBSET Virt8Names}

Virt8Delims == {"", "+"}

NoCall == Virt8Return(NotFound, <<>>)

Virt8Idle ==
    [stage |-> "idle", maps |-> <<>>, var_rcpt_delim |-> "",
     extended |-> NoCall, bare |-> NoCall, local |-> NoCall]

InitVirt8 ==
    virt8 \in {[Virt8Idle EXCEPT !.stage = "start", !.maps = maps,
                                 !.var_rcpt_delim = delim] :
                   maps \in Virt8Maps, delim \in Virt8Delims}

\* virtual8_maps_find(maps, "u+e@d")
Virt8FindExtended ==
    /\ virt8.stage = "start"
    /\ virt8' = [virt8 EXCEPT
                     !.stage = "extended",
                     !.extended = virtual8_maps_find(virt8.maps, virt8.var_rcpt_delim,
                                                     RcptExtended)]

\* virtual8_maps_find(maps, "u@d")
Virt8FindBare ==
    /\ virt8.stage = "extended"
    /\ virt8' = [virt8 EXCEPT
                     !.stage = "both",
                     !.bare = virtual8_maps_find(virt8.maps, virt8.var_rcpt_delim,
                                                 RcptBare)]

\* virtual8_maps_find(maps, "u+e"): a recipient without '@'
Virt8FindLocal ==
    /\ virt8.stage = "both"
    /\ virt8' = [virt8 EXCEPT
                     !.stage = "local",
                     !.local = virtual8_maps_find(virt8.maps, virt8.var_rcpt_delim,
                                                  RcptLocal)]

LibIdle == flock = FlockIdle /\ virt8 = Virt8Idle

(***************************************************************************)
(* The specifications: the verify server, the codec, the proxymap server.  *)
(***************************************************************************)
VerifyIdle ==
    /\ now = ClockAt(0)
    /\ verify_map = <<>>
    /\ var_verify_neg_cache = 1
    /\ var_verify_pos_exp = 1
    /\ var_verify_pos_try = 1
    /\ var_verify_neg_exp = 1
    /\ var_verify_neg_try = 1
    /\ last = NoRequest
    /\ hist = [a \in Addrs |-> NoHist]

Init == InitVerify /\ codec = CodecIdle /\ ProxyIdle /\ LibIdle

\* Values found in a table that was written by something else, or damaged:
\* no colon, two colons only, a status that is none of the four, and one
\* that verify_parse_entry reads.
StoredValues ==
    {<<"x">>,
     <<"0", ":", "1", ":", "1">>,
     <<"7", ":", "0", ":", "1", ":", "t">>,
     verify_make_entry(DEL_RCPT_STAT_BOUNCE, 0, ClockAt(0), TextOk)}

\* pre_jail_init has opened a table that holds a value for each address.
InitStored ==
    /\ now = ClockAt(0)
    /\ verify_map \in [Addrs -> StoredValues]
    /\ var_verify_neg_cache \in {0, 1}
    /\ var_verify_pos_exp \in Durations
    /\ var_verify_pos_try = var_verify_pos_exp
    /\ var_verify_neg_exp \in Durations
    /\ var_verify_neg_try = var_verify_neg_exp
    /\ last = NoRequest
    /\ hist = [a \in Addrs |-> NoHist]

InitSpecStored == InitStored /\ codec = CodecIdle /\ ProxyIdle /\ LibIdle

Next ==
    \/ VerifyUpdate /\ UNCHANGED <<codecVars, proxyVars, libVars>>
    \/ VerifyQuery /\ UNCHANGED <<codecVars, proxyVars, libVars>>
    \/ VerifyUnrecognized /\ UNCHANGED <<codecVars, proxyVars, libVars>>
    \/ Tick /\ UNCHANGED <<codecVars, proxyVars, libVars>>

Spec == Init /\ [][Next]_vars

SpecStored == InitSpecStored /\ [][Next]_vars

\* The verify server with two addresses in its table, over two periods of
\* the clock, with every time limit at one second.
IsoAddrs == {"u@x", "v@x"}

IsoStatusArgs == {DEL_RCPT_STAT_OK, DEL_RCPT_STAT_DEFER}

IsoClockValues == {ClockAt(0), ClockAt(2)}

InitIsolation ==
    /\ now = ClockAt(0)
    /\ verify_map = <<>>
    /\ var_verify_neg_cache \in {0, 1}
    /\ var_verify_pos_exp = 1
    /\ var_verify_pos_try = 1
    /\ var_verify_neg_exp = 1
    /\ var_verify_neg_try = 1
    /\ last = NoRequest
    /\ hist = [a \in IsoAddrs |-> NoHist]

VerifyUpdateIso ==
    \E addr \in IsoAddrs, addr_status \in IsoStatusArgs :
        verify_update_service(addr, addr_status, TextOk)

VerifyQueryIso == \E addr \in IsoAddrs : verify_query_service(addr)

TickIso ==
    \E t \in IsoClockValues :
        /\ t > now
        /\ now' = t
        /\ last' = NoRequest
        /\ UNCHANGED <<verify_map, verifyConf, hist>>

InitSpecIsolation == InitIsolation /\ codec = CodecIdle /\ ProxyIdle /\ LibIdle

NextIsolation ==
    \/ VerifyUpdateIso /\ UNCHANGED <<codecVars, proxyVars, libVars>>
    \/ VerifyQueryIso /\ UNCHANGED <<codecVars, proxyVars, libVars>>
    \/ TickIso /\ UNCHANGED <<codecVars, proxyVars, libVars>>

SpecIsolation == InitSpecIsolation /\ [][NextIsolation]_vars

InitSpecCodec == VerifyIdle /\ InitCodec /\ ProxyIdle /\ LibIdle

NextCodec ==
    \/ CodecMakeEntry /\ UNCHANGED <<verifyVars, proxyVars, libVars>>
    \/ CodecParseEntry /\ UNCHANGED <<verifyVars, proxyVars, libVars>>

SpecCodec == InitSpecCodec /\ [][NextCodec]_vars

InitSpecProxy == VerifyIdle /\ codec = CodecIdle /\ InitProxy /\ LibIdle

NextProxy ==
    \/ ProxyLookup /\ UNCHANGED <<verifyVars, codecVars, libVars>>
    \/ ProxyOpen /\ UNCHANGED <<verifyVars, codecVars, libVars>>
    \/ ProxyUnrecognized /\ UNCHANGED <<verifyVars, codecVars, libVars>>
    \/ TableChange /\ UNCHANGED <<verifyVars, codecVars, libVars>>
    \/ pre_accept /\ UNCHANGED <<verifyVars, codecVars, libVars>>
    \/ ProxyStart /\ UNCHANGED <<verifyVars, codecVars, libVars>>

SpecProxy == InitSpecProxy /\ [][NextProxy]_vars

InitSpecFlock ==
    VerifyIdle /\ codec = CodecIdle /\ ProxyIdle /\ InitFlock /\ virt8 = Virt8Idle

NextFlock ==
    \/ deliver_flock_fail /\ UNCHANGED <<verifyVars, codecVars, proxyVars, virt8>>
    \/ deliver_flock_sleep /\ UNCHANGED <<verifyVars, codecVars, proxyVars, virt8>>
    \/ deliver_flock_lock /\ UNCHANGED <<verifyVars, codecVars, proxyVars, virt8>>

SpecFlock == InitSpecFlock /\ [][NextFlock]_vars

InitSpecVirt8 ==
    VerifyIdle /\ codec = CodecIdle /\ ProxyIdle /\ flock = FlockIdle /\ InitVirt8

NextVirt8 ==
    \/ Virt8FindExtended /\ UNCHANGED <<verifyVars, codecVars, proxyVars, flock>>
    \/ Virt8FindBare /\ UNCHANGED <<verifyVars, codecVars, proxyVars, flock>>
    \/ Virt8FindLocal /\ UNCHANGED <<verifyVars, codecVars, proxyVars, flock>>

SpecVirt8 == InitSpecVirt8 /\ [][NextVirt8]_vars

(***************************************************************************)
(* What the properties below say of a stored value: its four fields, as    *)
(* verify_parse_entry reads them.                                          *)
(***************************************************************************)
Entry(status, probed, updated, text) ==
    [rc |-> 0, status |-> status, probed |-> probed, updated |-> updated,
     text |-> text]

Parsed(raw) == IF raw = NULL THEN ParseFailed ELSE verify_parse_entry(raw)

Stored(addr) == Parsed(dict_get(verify_map, addr))

\* The request handled last was read in full (its attributes were scanned).
LastIs(op) == last.op = op /\ last.addr # NULL

FailedProbeStatus == {DEL_RCPT_STAT_DEFER, DEL_RCPT_STAT_BOUNCE}

\* The entry that a request at time t found was expired.
Expired(e, t) ==
    \/ e.status = DEL_RCPT_STAT_OK /\ e.updated + var_verify_pos_exp < t
    \/ e.status # DEL_RCPT_STAT_OK /\ e.updated + var_verify_neg_exp < t

\* The entry that a request at time t found was missing: absent, unparseable
\* or stale.
Missing(raw, t) ==
    \/ raw = NULL
    \/ Parsed(raw).rc < 0
    \/ t - Parsed(raw).probed > PROBE_TTL /\ Expired(Parsed(raw), t)

(***************************************************************************)
(* C1. Protective update: an UPDATE(A, DEFER or BOUNCE, text) that finds   *)
(* the stored entry of A with status OK leaves that entry as it was and is *)
(* answered with status OK. The entry is still OK afterwards, so the same  *)
(* holds of every request of a sequence of such UPDATEs.                   *)
(***************************************************************************)
C1_ProtectiveUpdate ==
    (/\ LastIs("update")
     /\ last.addr_status \in FailedProbeStatus
     /\ Parsed(last.before).rc = 0
     /\ Parsed(last.before).status = DEL_RCPT_STAT_OK)
    => /\ dict_get(verify_map, last.addr) = last.before
       /\ last.status = "VRFY_STAT_OK"

C1_Witness ==
    /\ LastIs("update")
    /\ last.addr_status = DEL_RCPT_STAT_BOUNCE
    /\ Parsed(last.before).rc = 0
    /\ Parsed(last.before).status = DEL_RCPT_STAT_OK
    /\ last.text # Parsed(last.before).text

(***************************************************************************)
(* C2. Refresh bound. As claimed: whenever a QUERY(A) queues a probe and a *)
(* probe for A was queued before, the two are at least PROBE_TTL seconds   *)
(* apart.                                                                  *)
(***************************************************************************)
C2_Original ==
    (/\ LastIs("query")
     /\ last.probe = "queued"
     /\ last.prev.probe_at # -1)
    => now - last.prev.probe_at >= PROBE_TTL

(***************************************************************************)
(* C2, amended: with negative caching on, when a QUERY(A) queues a probe,  *)
(* a probe for A was queued before and no UPDATE(A) was handled between    *)
(* the two, they are more than PROBE_TTL seconds apart.                    *)
(***************************************************************************)
C2_RefreshBound ==
    (/\ LastIs("query")
     /\ last.probe = "queued"
     /\ last.prev.probe_at # -1
     /\ var_verify_neg_cache # 0
     /\ ~last.prev.upd_since)
    => now - last.prev.probe_at > PROBE_TTL

C2_Witness ==
    /\ LastIs("query")
    /\ last.probe = "queued"
    /\ last.prev.probe_at # -1
    /\ var_verify_neg_cache # 0
    /\ ~last.prev.upd_since

(***************************************************************************)
(* C3. TODO transient. As claimed: a QUERY(A) that found no stored entry   *)
(* queued a probe; a later QUERY(A), at most PROBE_TTL seconds after it    *)
(* and with no UPDATE(A) between them, replies TODO and queues no probe.   *)
(***************************************************************************)
AfterMissProbe ==
    /\ LastIs("query")
    /\ last.prev.probe_at # -1
    /\ last.prev.probe_miss
    /\ ~last.prev.upd_since
    /\ now - last.prev.probe_at <= PROBE_TTL

C3_Original ==
    AfterMissProbe
    => /\ last.reply_status = DEL_RCPT_STAT_TODO
       /\ last.probe # "queued"

(***************************************************************************)
(* C3, amended: a QUERY(A) that comes after a QUERY(A) that found no       *)
(* stored entry, with no UPDATE(A) between them, replies TODO (whatever    *)
(* time has passed); and with negative caching on, when that earlier       *)
(* QUERY(A) queued a probe at most PROBE_TTL seconds ago, it sends no      *)
(* probe.                                                                  *)
(***************************************************************************)
C3_TodoTransient ==
    /\ (LastIs("query") /\ last.prev.missed)
       => last.reply_status = DEL_RCPT_STAT_TODO
    /\ (AfterMissProbe /\ var_verify_neg_cache # 0)
       => last.probe = "none"

C3_Witness ==
    /\ AfterMissProbe
    /\ var_verify_neg_cache # 0
    /\ now > last.prev.probe_at

(***************************************************************************)
(* C4. Cold query. As claimed: a QUERY(A) at any time that finds no entry  *)
(* for A replies (OK, TODO, "Address verification in progress") and sends  *)
(* a probe; once the probe is queued the store holds (TODO, now, 0, that   *)
(* text) for A with negative caching on, and no entry for A with it off.   *)
(***************************************************************************)
ColdQueryOutcome ==
    /\ last.status = "VRFY_STAT_OK"
    /\ last.reply_status = DEL_RCPT_STAT_TODO
    /\ last.reply_text = TextInProgress
    /\ last.probe # "none"
    /\ last.probe = "queued" =>
           IF var_verify_neg_cache # 0
           THEN Stored(last.addr) =
                    Entry(DEL_RCPT_STAT_TODO, now, 0, TextInProgress)
           ELSE dict_get(verify_map, last.addr) = NULL

C4_Original == (LastIs("query") /\ last.before = NULL) => ColdQueryOutcome

(***************************************************************************)
(* C4, amended: the same of a QUERY(A) at a time t > PROBE_TTL and         *)
(* t > address_verify_negative_refresh_time; at any other time the reply   *)
(* is the same, no probe is sent and the store still has no entry for A.   *)
(***************************************************************************)
C4_ColdQuery ==
    (LastIs("query") /\ last.before = NULL)
    => IF now > PROBE_TTL /\ now > var_verify_neg_try
       THEN ColdQueryOutcome
       ELSE /\ last.status = "VRFY_STAT_OK"
            /\ last.reply_status = DEL_RCPT_STAT_TODO
            /\ last.reply_text = TextInProgress
            /\ last.probe = "none"
            /\ dict_get(verify_map, last.addr) = NULL

C4_Witness ==
    /\ LastIs("query")
    /\ last.before = NULL
    /\ now > PROBE_TTL
    /\ now > var_verify_neg_try
    /\ last.probe = "queued"
    /\ var_verify_neg_cache # 0

(***************************************************************************)
(* C5. With negative caching off, after a QUERY(A) that found A missing    *)
(* (absent, unparseable or stale) the store has no entry for A, whatever   *)
(* became of the probe; and no stored entry has status TODO.               *)
(***************************************************************************)
C5_NoTodoPersistence ==
    var_verify_neg_cache = 0
    => /\ (LastIs("query") /\ Missing(last.before, now))
          => dict_get(verify_map, last.addr) = NULL
       /\ \A a \in DOMAIN verify_map :
              Stored(a).status # DEL_RCPT_STAT_TODO

C5_Witness ==
    /\ var_verify_neg_cache = 0
    /\ LastIs("query")
    /\ last.before # NULL
    /\ Missing(last.before, now)
    /\ last.probe = "queued"

(***************************************************************************)
(* C6. UPDATE applied: an UPDATE(A, s, text) at time t with s = OK, or     *)
(* with s DEFER or BOUNCE when A has no stored entry or one whose status   *)
(* is not OK, leaves (s, 0, t, text) as the stored entry of A and replies  *)
(* OK.                                                                     *)
(***************************************************************************)
C6_UpdateApplied ==
    (/\ LastIs("update")
     /\ \/ last.addr_status = DEL_RCPT_STAT_OK
        \/ /\ last.addr_status \in FailedProbeStatus
           /\ \/ last.before = NULL
              \/ /\ Parsed(last.before).rc = 0
                 /\ Parsed(last.before).status # DEL_RCPT_STAT_OK)
    => /\ Stored(last.addr) = Entry(last.addr_status, 0, now, last.text)
       /\ last.status = "VRFY_STAT_OK"

C6_Witness ==
    /\ LastIs("update")
    /\ last.addr_status = DEL_RCPT_STAT_DEFER
    /\ Parsed(last.before).rc = 0
    /\ Parsed(last.before).status = DEL_RCPT_STAT_BOUNCE
    /\ Parsed(last.before).probed # 0
    /\ last.text # Parsed(last.before).text

(***************************************************************************)
(* C7. Positive refresh: a QUERY(A) at time t that finds (OK, probed,      *)
(* updated, text), not expired, past its refresh time and with             *)
(* t - probed > PROBE_TTL, replies (OK, OK, text), sends one probe and,    *)
(* once that is queued, leaves (OK, t, updated, text) as the stored entry. *)
(***************************************************************************)
PositiveRefreshCase ==
    /\ LastIs("query")
    /\ Parsed(last.before).rc = 0
    /\ Parsed(last.before).status = DEL_RCPT_STAT_OK
    /\ Parsed(last.before).updated + var_verify_pos_exp >= now
    /\ Parsed(last.before).updated + var_verify_pos_try < now
    /\ now - Parsed(last.before).probed > PROBE_TTL

C7_PositiveRefresh ==
    PositiveRefreshCase
    => /\ last.status = "VRFY_STAT_OK"
       /\ last.reply_status = DEL_RCPT_STAT_OK
       /\ last.reply_text = Parsed(last.before).text
       /\ last.probe # "none"
       /\ last.nput + last.ndel = (IF last.probe = "queued" THEN 1 ELSE 0)
       /\ IF last.probe = "queued"
          THEN Stored(last.addr) =
                   Entry(DEL_RCPT_STAT_OK, now, Parsed(last.before).updated,
                         Parsed(last.before).text)
          ELSE dict_get(verify_map, last.addr) = last.before

C7_Witness ==
    /\ PositiveRefreshCase
    /\ last.probe = "queued"
    /\ var_verify_neg_cache = 0

(***************************************************************************)
(* C8. UPDATE rejection: an UPDATE(A, s, text) with s none of OK, DEFER,   *)
(* BOUNCE is answered BAD; it puts and deletes nothing, sends no probe and *)
(* leaves the store as it was.                                             *)
(***************************************************************************)
C8_UpdateRejected ==
    (/\ LastIs("update")
     /\ last.addr_status \notin
            {DEL_RCPT_STAT_OK, DEL_RCPT_STAT_DEFER, DEL_RCPT_STAT_BOUNCE})
    => /\ last.status = "VRFY_STAT_BAD"
       /\ last.nput = 0
       /\ last.ndel = 0
       /\ last.probe = "none"
       /\ dict_get(verify_map, last.addr) = last.before

C8_Witness ==
    /\ LastIs("update")
    /\ last.addr_status = DEL_RCPT_STAT_TODO
    /\ last.before # NULL

(***************************************************************************)
(* C9. Entry round trip: for every status among OK, DEFER, BOUNCE, TODO,   *)
(* every probed and updated time and every text, verify_parse_entry        *)
(* applied to what verify_make_entry wrote succeeds and gives the same     *)
(* four fields; a text with ':' characters in it comes back whole, since   *)
(* only the first three colons separate fields.                            *)
(***************************************************************************)
C9_RoundTrip ==
    (codec.stage = "parsed" /\ IsRcptStatus(codec.status))
        => codec.out = Entry(codec.status, codec.probed, codec.updated, codec.text)

\* An entry with a negative time stamp and a text of two colons was parsed.
C9_Witness ==
    /\ codec.stage = "parsed"
    /\ codec.status = DEL_RCPT_STAT_TODO
    /\ codec.probed < 0
    /\ codec.updated = MaxCodecLong
    /\ codec.text = <<":", ":">>
    /\ codec.out.rc = 0

(***************************************************************************)
(* C10. Allow-list closure under "proxy:" stripping: for a reference t:n   *)
(* that does not begin with "proxy:", an OPEN or LOOKUP that names N       *)
(* copies of "proxy:" followed by t:n is denied (PROXY_STAT_DENY) exactly  *)
(* when t:n is not in proxy_read_maps, whatever N is: the name that is     *)
(* looked up and opened is t:n itself, and the request is never answered   *)
(* PROXY_STAT_BAD.                                                         *)
(***************************************************************************)
IsTypeName(base) == strchr(base, ":") /\ ~HasProxyColon(base)

ProxyRequestIs(op) == plast.op = op /\ plast.name # <<>>

C10_AllowListClosure ==
    ((ProxyRequestIs("open") \/ ProxyRequestIs("lookup")) /\ IsTypeName(plast.base))
        => /\ plast.name = plast.base
           /\ plast.status # "PROXY_STAT_DENY" <=> plast.base \in proxy_read_maps
           /\ plast.status # "PROXY_STAT_BAD"

\* A LOOKUP behind two prefixes of a table, approved behind two prefixes in
\* main.cf, was answered with the value found.
C10_Witness ==
    /\ ProxyRequestIs("lookup")
    /\ plast.n = MaxProxyPrefix
    /\ plast.base = NameCdbB
    /\ plast.base \in proxy_read_maps
    /\ plast.status = "PROXY_STAT_OK"
    /\ plast.value = "v"

\* An OPEN or LOOKUP was read in full and names a type:name.
ProxyNamed == (ProxyRequestIs("open") \/ ProxyRequestIs("lookup")) /\ strchr(plast.name, ":")

ProxyKeyOf(request) == MapTypeNameFlags(request.name, request.flags)

C11_DeniedOutcome ==
    (ProxyNamed /\ plast.name \notin proxy_read_maps)
        => /\ plast.status = "PROXY_STAT_DENY"
           /\ plast.value = ""
           /\ plast.reply_flags = 0
           /\ ~plast.opened

C11_CacheApproved ==
    /\ \A k \in DOMAIN dict_table : dict_table[k].type_name \in proxy_read_maps
    /\ \A k \in DOMAIN dict_opens : k \in DOMAIN dict_table

C11_DenyKeepsCache ==
    plast'.status = "PROXY_STAT_DENY"
        => dict_table' = dict_table /\ dict_opens' = dict_opens

(***************************************************************************)
(* C11. Deny without opening: an OPEN or LOOKUP whose canonical type:name  *)
(* is not in proxy_read_maps is answered PROXY_STAT_DENY with an empty     *)
(* value and zero flags; handling it calls no dict_open and leaves the     *)
(* handle table as it was; and at all times every handle in the table is   *)
(* of a type:name that is in proxy_read_maps.                              *)
(***************************************************************************)
C11_DenyWithoutOpening ==
    [](C11_DeniedOutcome /\ C11_CacheApproved) /\ [][C11_DenyKeepsCache]_vars

\* With only h:a approved and open, a LOOKUP of proxy:proxy:c:b was denied.
C11_Witness ==
    /\ ProxyRequestIs("lookup")
    /\ plast.n = MaxProxyPrefix
    /\ plast.base = NameCdbB
    /\ proxy_read_maps = {NameHashA}
    /\ dict_table # <<>>
    /\ plast.status = "PROXY_STAT_DENY"

C12_OpenedOnce ==
    /\ DOMAIN dict_opens = DOMAIN dict_table
    /\ \A k \in DOMAIN dict_opens : dict_opens[k] = 1

C12_FlagsOfHandle ==
    (ProxyRequestIs("open") /\ plast.status = "PROXY_STAT_OK")
        => /\ ProxyKeyOf(plast) \in DOMAIN dict_table
           /\ plast.reply_flags = dict_table[ProxyKeyOf(plast)].flags

C12_HandlesKept ==
    proxy_up'
        => \A k \in DOMAIN dict_table :
               k \in DOMAIN dict_table' /\ dict_table'[k] = dict_table[k]

(***************************************************************************)
(* C12. Handle reuse: in one proxymap process dict_open is called at most  *)
(* once for each name:flags, however many OPEN and LOOKUP requests name    *)
(* it; the handle table has one handle for each name:flags opened, a       *)
(* handle stays as it is while the process runs, and the flags of an OPEN  *)
(* reply are those of that handle, so that two OPEN requests of the same   *)
(* (type:name, flags) are answered with the same flags.                    *)
(***************************************************************************)
C12_HandleReuse ==
    [](C12_OpenedOnce /\ C12_FlagsOfHandle) /\ [][C12_HandlesKept]_vars

\* An OPEN was served from a handle that an earlier request had opened,
\* with another handle in the table.
C12_Witness ==
    /\ ProxyRequestIs("open")
    /\ plast.status = "PROXY_STAT_OK"
    /\ ~plast.opened
    /\ plast.n = 1
    /\ plast.reply_flags = 8
    /\ Cardinality(DOMAIN dict_table) >= 2

(***************************************************************************)
(* C13. LOOKUP result mapping: a LOOKUP read in full, of a table in        *)
(* proxy_read_maps, is answered (PROXY_STAT_OK, v) when dict_get gives the *)
(* value v, (PROXY_STAT_NOKEY, "") when it gives nothing with dict_errno   *)
(* zero, and (PROXY_STAT_RETRY, "") when it gives nothing with dict_errno  *)
(* not zero; these are the only three outcomes.                            *)
(***************************************************************************)
C13_LookupMapping ==
    (ProxyRequestIs("lookup") /\ plast.name \in proxy_read_maps)
        => /\ plast.result \in LookupResults
           /\ plast.result = "notfound"
                  => plast.status = "PROXY_STAT_NOKEY" /\ plast.value = ""
           /\ plast.result = "error"
                  => plast.status = "PROXY_STAT_RETRY" /\ plast.value = ""
           /\ plast.result \notin {"notfound", "error"}
                  => plast.status = "PROXY_STAT_OK" /\ plast.value = plast.result

\* A LOOKUP whose dict_get failed with an error was answered RETRY.
C13_Witness ==
    /\ ProxyRequestIs("lookup")
    /\ plast.name \in proxy_read_maps
    /\ plast.result = "error"
    /\ plast.status = "PROXY_STAT_RETRY"

C15_NoAcceptAfterChange == plast.op = "accept" => (proxy_up /\ ~proxy_changed)

C15_ExitAtPreAccept ==
    (proxy_up /\ proxy_changed /\ plast'.op \in {"accept", "exit"}) => ~proxy_up'

(***************************************************************************)
(* C15. Restart on table change: when dict_changed() is true at the time   *)
(* pre_accept is called, the process exits and does not accept the         *)
(* connection; so a process never accepts a connection once a table it has *)
(* opened has changed.                                                     *)
(***************************************************************************)
C15_RestartOnChange ==
    []C15_NoAcceptAfterChange /\ [][C15_ExitAtPreAccept]_vars

\* A process that had served requests exited at pre_accept after a change.
C15_Witness ==
    /\ plast.op = "exit"
    /\ proxy_changed
    /\ ~proxy_up
    /\ proxy_read_maps = {}

(***************************************************************************)
(* C14. Malformed request gets BAD: a verify QUERY or UPDATE and a         *)
(* proxymap OPEN or LOOKUP whose attributes cannot be read (attr_scan does *)
(* not return the number of attributes asked for) is answered with the     *)
(* status BAD. This is the claim as it stands; verify_update_service and   *)
(* verify_query_service send no reply at all in that case.                 *)
(***************************************************************************)
C14_Original ==
    /\ (last.op \in {VRFY_REQ_UPDATE, VRFY_REQ_QUERY} /\ last.addr = NULL)
           => last.status = "VRFY_STAT_BAD"
    /\ (plast.op \in {PROXY_REQ_OPEN, PROXY_REQ_LOOKUP} /\ plast.name = <<>>)
           => plast.status = "PROXY_STAT_BAD"

FlockAttempts == {k \in 1..Len(flock.calls) : flock.calls[k].call = "myflock"}

FlockMaxAttempts == IF flock.var_flock_tries > 0 THEN flock.var_flock_tries ELSE 0

(***************************************************************************)
(* C16. deliver_flock retry loop: deliver_flock makes at most              *)
(* var_flock_tries lock attempts, each exclusive and non-blocking; an      *)
(* attempt that succeeds is the last call made and the result is 0; the    *)
(* result is -1 exactly when every attempt failed, and then                *)
(* var_flock_tries attempts were made (none when var_flock_tries <= 0);    *)
(* the calls made are attempt, sleep(var_flock_delay), attempt, ...: a     *)
(* sleep comes only between two attempts.                                  *)
(***************************************************************************)
C16_FlockRetry ==
    /\ Cardinality(FlockAttempts) <= FlockMaxAttempts
    /\ \A k \in 1..Len(flock.calls) :
           /\ k % 2 = 1 => /\ flock.calls[k].call = "myflock"
                           /\ flock.calls[k].arg = "EXCLUSIVE|NOWAIT"
                           /\ flock.calls[k].ok => k = Len(flock.calls)
           /\ k % 2 = 0 => /\ flock.calls[k].call = "sleep"
                           /\ flock.calls[k].arg = flock.var_flock_delay
    /\ flock.pc = "done"
           => /\ flock.ret \in {0, -1}
              /\ Len(flock.calls) % 2 = 1 \/ flock.calls = <<>>
              /\ flock.ret = 0 <=> \E k \in FlockAttempts : flock.calls[k].ok
              /\ flock.ret = -1 <=> \A k \in FlockAttempts : ~flock.calls[k].ok
              /\ flock.ret = -1 => Cardinality(FlockAttempts) = FlockMaxAttempts

\* The third attempt of three succeeded, after two sleeps.
C16_Witness ==
    /\ flock.pc = "done"
    /\ flock.var_flock_tries = MaxFlockTries
    /\ Cardinality(FlockAttempts) = MaxFlockTries
    /\ Len(flock.calls) = 2 * MaxFlockTries - 1
    /\ flock.ret = 0

(***************************************************************************)
(* C17. Address extension is ignored by virtual8_maps_find: with a         *)
(* recipient delimiter set, the result for u+e@d is the result for u@d,    *)
(* whatever the lookup tables hold. This is the claim as it stands; it     *)
(* fails for tables that hold u+e@d itself and not u@d.                    *)
(***************************************************************************)
C17_Original ==
    (virt8.stage \in {"both", "local"} /\ virt8.var_rcpt_delim # "")
        => virt8.extended.result = virt8.bare.result

\* Two results of dict_get are the same: both null, or the same value.
SameValue(a, b) == IF a = NULL THEN b = NULL ELSE a = b

\* The probe that the last QUERY tried to submit could not be queued.
ProbeFailed == LastIs("query") /\ last.probe \in {"fopen_failed", "fclose_failed"}

(***************************************************************************)
(* C18. Probe failure yields no state change. As claimed: when the probe   *)
(* submission of a QUERY(A) fails, the stored entry of A after the QUERY   *)
(* is what it was before, whatever it was and whatever negative caching    *)
(* is set to.                                                              *)
(***************************************************************************)
C18_Original ==
    ProbeFailed => SameValue(last.before, dict_get(verify_map, last.addr))

(***************************************************************************)
(* C18, amended: when the probe submission of a QUERY(A) fails, the QUERY  *)
(* writes nothing, and the stored entry of A after it is what it was       *)
(* before, with one exception: with negative caching off, an entry that    *)
(* was unparseable or stale is gone, since it is purged before the probe   *)
(* is submitted.                                                           *)
(***************************************************************************)
C18_FailedProbe ==
    ProbeFailed
        => /\ last.nput = 0
           /\ IF var_verify_neg_cache = 0 /\ Missing(last.before, now)
              THEN dict_get(verify_map, last.addr) = NULL
              ELSE SameValue(last.before, dict_get(verify_map, last.addr))

\* With negative caching off, the refresh probe of a stored OK entry could
\* not be queued, and the entry is still there.
C18_Witness ==
    /\ ProbeFailed
    /\ last.probe = "fclose_failed"
    /\ var_verify_neg_cache = 0
    /\ last.before # NULL
    /\ SameValue(last.before, dict_get(verify_map, last.addr))
    /\ last.reply_status = DEL_RCPT_STAT_OK

\* The request handled last found a stored value that does not parse.
FoundUnparseable == last.before # NULL /\ Parsed(last.before).rc < 0

(***************************************************************************)
(* C19. Unparseable stored entry equals missing entry. As claimed: a       *)
(* QUERY(A) that finds a stored value that does not parse replies TODO     *)
(* with the default text, and an UPDATE(A, DEFER or BOUNCE, text) that     *)
(* finds one writes (status, 0, now, text), as both do when A has no       *)
(* entry. The UPDATE half fails for the values that atoi() reads as 0.     *)
(***************************************************************************)
C19_Original ==
    /\ (LastIs("query") /\ FoundUnparseable)
           => /\ last.reply_status = DEL_RCPT_STAT_TODO
              /\ last.reply_text = TextInProgress
    /\ (LastIs("update") /\ FoundUnparseable
            /\ last.addr_status \in FailedProbeStatus)
           => Stored(last.addr) = Entry(last.addr_status, 0, now, last.text)

(***************************************************************************)
(* C20. Protection lasts only until expiry. As claimed: an UPDATE(A,       *)
(* DEFER or BOUNCE, text) that finds the stored OK entry of A expired      *)
(* (updated + positive expire time < now) is applied and replaces it.      *)
(* verify_update_service ignores the UPDATE whether the entry is expired   *)
(* or not.                                                                 *)
(***************************************************************************)
C20_Original ==
    (/\ LastIs("update")
     /\ last.addr_status \in FailedProbeStatus
     /\ Parsed(last.before).rc = 0
     /\ Parsed(last.before).status = DEL_RCPT_STAT_OK
     /\ Parsed(last.before).updated + var_verify_pos_exp < now)
    => Stored(last.addr) = Entry(last.addr_status, 0, now, last.text)

\* The stored entry that the last QUERY found parses, and is stale at the
\* time of the QUERY: probed more than PROBE_TTL seconds ago, and expired.
FoundParsed == LastIs("query") /\ Parsed(last.before).rc = 0

FoundStale ==
    /\ FoundParsed
    /\ now - Parsed(last.before).probed > PROBE_TTL
    /\ Expired(Parsed(last.before), now)

(***************************************************************************)
(* C21. Stale entry on QUERY: a QUERY(A) that finds a stored entry that    *)
(* parses, was probed more than PROBE_TTL seconds ago and is expired       *)
(* replies (OK, TODO, "Address verification in progress"), and deletes the *)
(* entry if and only if negative caching is off. A QUERY that finds an     *)
(* entry probed PROBE_TTL seconds ago or less, or one that is not expired, *)
(* replies the stored status and text and deletes nothing.                 *)
(***************************************************************************)
C21_StaleQuery ==
    FoundParsed
        => /\ last.status = "VRFY_STAT_OK"
           /\ IF FoundStale
              THEN /\ last.reply_status = DEL_RCPT_STAT_TODO
                   /\ last.reply_text = TextInProgress
                   /\ last.ndel = 1 <=> var_verify_neg_cache = 0
                   /\ var_verify_neg_cache = 0
                          => dict_get(verify_map, last.addr) = NULL
              ELSE /\ last.reply_status = Parsed(last.before).status
                   /\ last.reply_text = Parsed(last.before).text
                   /\ last.ndel = 0

\* An OK entry that is long expired, found while its probe is outstanding:
\* the reply is OK.
C21_WitnessOutstanding ==
    /\ FoundParsed
    /\ ~FoundStale
    /\ Expired(Parsed(last.before), now)
    /\ Parsed(last.before).status = DEL_RCPT_STAT_OK
    /\ now - Parsed(last.before).updated > PROBE_TTL
    /\ last.reply_status = DEL_RCPT_STAT_OK

\* A stale OK entry, deleted with negative caching off.
C21_Witness ==
    /\ FoundStale
    /\ Parsed(last.before).status = DEL_RCPT_STAT_OK
    /\ last.ndel = 1

\* The last QUERY found a stored OK entry past its positive expiry.
FoundExpiredOk ==
    /\ FoundParsed
    /\ Parsed(last.before).status = DEL_RCPT_STAT_OK
    /\ Parsed(last.before).updated + var_verify_pos_exp < now

(***************************************************************************)
(* C22. Expiry edge of the per-address state machine. As claimed: after a  *)
(* QUERY(A) that finds the stored OK entry of A past its positive expiry,  *)
(* the stored entry of A has status OK still, with probed set to now.      *)
(***************************************************************************)
C22_Original ==
    FoundExpiredOk
        => /\ Stored(last.addr).rc = 0
           /\ Stored(last.addr).status = DEL_RCPT_STAT_OK
           /\ Stored(last.addr).probed = now

(***************************************************************************)
(* C22, amended: a QUERY(A) that finds the stored OK entry of A past its   *)
(* positive expiry, with no probe outstanding, replies TODO and does not   *)
(* retain the status. With negative caching off the entry is deleted.      *)
(* With negative caching on, the entry becomes (TODO, now, 0, "Address     *)
(* verification in progress") when a probe is queued, and stays as it was  *)
(* when none is. While a probe is outstanding (probed PROBE_TTL seconds    *)
(* ago or less), the QUERY replies OK and the entry stays as it was.       *)
(***************************************************************************)
C22_ExpiryEdge ==
    FoundExpiredOk
        => IF now - Parsed(last.before).probed > PROBE_TTL
           THEN /\ last.reply_status = DEL_RCPT_STAT_TODO
                /\ IF var_verify_neg_cache = 0
                   THEN dict_get(verify_map, last.addr) = NULL
                   ELSE IF last.probe = "queued"
                   THEN Stored(last.addr) =
                            Entry(DEL_RCPT_STAT_TODO, now, 0, TextInProgress)
                   ELSE SameValue(last.before, dict_get(verify_map, last.addr))
           ELSE /\ last.reply_status = DEL_RCPT_STAT_OK
                /\ last.probe = "none"
                /\ SameValue(last.before, dict_get(verify_map, last.addr))

\* With negative caching on, the expired OK entry was replaced by a TODO
\* entry when the probe was queued.
C22_Witness ==
    /\ FoundExpiredOk
    /\ var_verify_neg_cache # 0
    /\ last.probe = "queued"
    /\ Stored(last.addr).rc = 0
    /\ Stored(last.addr).status = DEL_RCPT_STAT_TODO

(***************************************************************************)
(* C23. Single write per request: every request does at most one dict_put  *)
(* or one dict_del on verify_map, never both; in particular a QUERY that   *)
(* deletes a stale entry does not write the probe time back. The table     *)
(* shows it: after a delete the key is absent, after a put it is present,  *)
(* and after neither the value is what it was.                             *)
(***************************************************************************)
C23_SingleWrite ==
    /\ last.nput + last.ndel <= 1
    /\ last.addr # NULL
           => /\ last.ndel = 1 => dict_get(verify_map, last.addr) = NULL
              /\ last.nput = 1 => dict_get(verify_map, last.addr) # NULL
              /\ last.nput + last.ndel = 0
                     => SameValue(last.before, dict_get(verify_map, last.addr))

\* A QUERY deleted a stale entry and queued a probe.
C23_Witness ==
    /\ LastIs("query")
    /\ last.ndel = 1
    /\ last.probe = "queued"
    /\ last.nput = 0

(***************************************************************************)
(* C24. Write-back only after confirmed submission: a QUERY(A) that writes *)
(* an entry writes it with probed = now, and only when the probe for A was *)
(* queued by post_mail_fopen and post_mail_fclose in that request. In      *)
(* every state reached from an empty table, a stored entry with probed # 0 *)
(* has the time of a probe that was queued for its address.                *)
(***************************************************************************)
C24_WriteBackAfterSubmit ==
    /\ (LastIs("query") /\ last.nput = 1)
           => /\ last.probe = "queued"
              /\ Stored(last.addr).rc = 0
              /\ Stored(last.addr).probed = now
    /\ \A a \in Addrs :
           (Stored(a).rc = 0 /\ Stored(a).probed # 0)
               => Stored(a).probed = hist[a].probe_at

C24_Witness ==
    /\ LastIs("query")
    /\ last.nput = 1
    /\ last.probe = "queued"
    /\ Stored(last.addr).probed = now
    /\ Stored(last.addr).status = DEL_RCPT_STAT_OK

(***************************************************************************)
(* C25. TODO carries no information: in every state reached from an empty  *)
(* table by QUERY and UPDATE requests, a stored entry with status TODO has *)
(* updated = 0.                                                            *)
(***************************************************************************)
C25_TodoNoInformation ==
    \A a \in Addrs :
        (Stored(a).rc = 0 /\ Stored(a).status = DEL_RCPT_STAT_TODO)
            => Stored(a).updated = 0

\* An UPDATE with status TODO was refused while a TODO entry is stored.
C25_Witness ==
    /\ LastIs("update")
    /\ last.addr_status = DEL_RCPT_STAT_TODO
    /\ last.status = "VRFY_STAT_BAD"
    /\ Stored(last.addr).rc = 0
    /\ Stored(last.addr).status = DEL_RCPT_STAT_TODO
    /\ Stored(last.addr).probed # 0

\* The whitespace-separated tokens of a string: its longest runs of
\* characters that are not separators.
TokensOf(str) ==
    {SubSeq(str, i, j) : <<i, j>> \in
        {ij \in (1..Len(str)) \X (1..Len(str)) :
            /\ ij[1] <= ij[2]
            /\ \A k \in ij[1]..ij[2] : ~IsSep(str[k])
            /\ ij[1] = 1 \/ IsSep(str[ij[1] - 1])
            /\ ij[2] = Len(str) \/ IsSep(str[ij[2] + 1])}}

\* What is left of a string when every leading "proxy:" is taken off: the
\* suffix that does not begin with "proxy:" and has only "proxy:" before it.
Canonical(str) ==
    CHOOSE t \in {SubSeq(str, i, Len(str)) : i \in 1..(Len(str) + 1)} :
        /\ ~HasProxyColon(t)
        /\ \E n \in 0..Len(str) : str = ProxyPrefixed(n, t)

AllowListOf(str) ==
    {Canonical(t) : t \in {u \in TokensOf(str) :
                              HasProxyColon(u) /\ strchr(Canonical(u), ":")}}

C26_ListBuilt ==
    proxy_up
        => /\ proxy_read_maps = AllowListOf(var_proxy_read_maps)
           /\ \A name \in proxy_read_maps :
                  strchr(name, ":") /\ ~HasProxyColon(name)

C26_ListKept ==
    (proxy_up /\ proxy_up')
        => /\ proxy_read_maps' = proxy_read_maps
           /\ var_proxy_read_maps' = var_proxy_read_maps

(***************************************************************************)
(* C26. Allow-list construction: proxy_read_maps holds exactly the strings *)
(* obtained from the whitespace-separated tokens of the main.cf value that *)
(* begin with "proxy:", with every leading "proxy:" removed, when what is  *)
(* left contains ':'. A token without a leading "proxy:" approves nothing; *)
(* every element contains ':' and none begins with "proxy:"; and no        *)
(* request changes the list while the process runs.                        *)
(***************************************************************************)
C26_AllowListConstruction == []C26_ListBuilt /\ [][C26_ListKept]_vars

\* main.cf lists "h:a proxy:proxy:c:b": only c:b is approved, and a LOOKUP
\* of h:a was denied.
C26_Witness ==
    /\ proxy_up
    /\ var_proxy_read_maps = JoinTokens(<<NameHashA, ProxyPrefixed(2, NameCdbB)>>)
    /\ proxy_read_maps = {NameCdbB}
    /\ ProxyRequestIs("lookup")
    /\ plast.base = NameHashA
    /\ plast.status = "PROXY_STAT_DENY"

\* The table reference of the OPEN or LOOKUP handled last, as it was sent.
ProxyReference == ProxyPrefixed(plast.n, plast.base)

C27_BadOutcome ==
    ((ProxyRequestIs("open") \/ ProxyRequestIs("lookup"))
         /\ ~strchr(Canonical(ProxyReference), ":"))
        => /\ plast.status = "PROXY_STAT_BAD"
           /\ plast.value = ""
           /\ plast.reply_flags = 0
           /\ ~plast.opened

C27_BadKeepsCache ==
    plast'.status = "PROXY_STAT_BAD"
        => dict_table' = dict_table /\ dict_opens' = dict_opens

(***************************************************************************)
(* C27. BAD takes precedence for names without a colon: an OPEN or LOOKUP  *)
(* whose table reference, with every leading "proxy:" removed, contains no *)
(* ':' is answered PROXY_STAT_BAD, never PROXY_STAT_DENY, whatever         *)
(* proxy_read_maps holds; handling it calls no dict_open and leaves the    *)
(* handle table as it was.                                                 *)
(***************************************************************************)
C27_BadPrecedence == []C27_BadOutcome /\ [][C27_BadKeepsCache]_vars

\* main.cf lists "proxy:h:a proxy:x"; with a handle open, a LOOKUP of
\* proxy:proxy:x was answered BAD.
C27_Witness ==
    /\ ProxyRequestIs("lookup")
    /\ plast.n = MaxProxyPrefix
    /\ plast.base = NameBare
    /\ var_proxy_read_maps =
           JoinTokens(<<ProxyPrefixed(1, NameHashA), ProxyPrefixed(1, NameBare)>>)
    /\ dict_table # <<>>
    /\ plast.status = "PROXY_STAT_BAD"

\* A handle key read back: what is before its last ':' and the number that
\* the octal digits after it stand for.
LastColon(k) == CHOOSE i \in 1..Len(k) :
                    k[i] = ":" /\ \A j \in (i + 1)..Len(k) : k[j] # ":"

RECURSIVE OctValue(_, _)
OctValue(digits, acc) ==
    IF digits = <<>> THEN acc
    ELSE OctValue(Tail(digits), acc * 8 + DigitVal(Head(digits)))

KeyNamePart(k) == SubSeq(k, 1, LastColon(k) - 1)

KeyFlagsPart(k) == OctValue(SubSeq(k, LastColon(k) + 1, Len(k)), 0)

\* Names and flags that would collide if the key were not cut at its last ':'.
KeyNames == {NameHashA, NameCdbB, NameHashA \o <<":", "1">>, NameHashA \o <<":", "1", "0">>}

KeyFlags == {0, 1, 8}

C28_KeyInjective ==
    \A n1 \in KeyNames, n2 \in KeyNames, f1 \in KeyFlags, f2 \in KeyFlags :
        MapTypeNameFlags(n1, f1) = MapTypeNameFlags(n2, f2) <=> (n1 = n2 /\ f1 = f2)

C28_KeysOfHandles ==
    /\ \A k \in DOMAIN dict_table :
           /\ \E i \in 1..Len(k) : k[i] = ":"
           /\ dict_table[k].type_name = KeyNamePart(k)
           /\ dict_table[k].flags = KeyFlagsPart(k)
           /\ ~HasProxyColon(KeyNamePart(k))
    /\ \A k1 \in DOMAIN dict_table, k2 \in DOMAIN dict_table :
           dict_table[k1] = dict_table[k2] <=> k1 = k2

C28_HandleOfRequest ==
    (ProxyNamed /\ plast.status \notin {"PROXY_STAT_BAD", "PROXY_STAT_DENY"})
        => /\ \E k \in DOMAIN dict_table :
                  /\ KeyNamePart(k) = Canonical(ProxyReference)
                  /\ KeyFlagsPart(k) = plast.flags
           /\ ProxyRequestIs("open") => plast.reply_flags = plast.flags

(***************************************************************************)
(* C28. Handle key separation: the key of a handle is the canonical        *)
(* type:name, a ':' and the request flags in octal. Two requests are       *)
(* served from the same handle if and only if they have the same canonical *)
(* type:name, however many "proxy:" each carried, and the same flags;      *)
(* requests for one table with different flags, or for different tables,   *)
(* are served from different handles.                                      *)
(***************************************************************************)
C28_KeySeparation == C28_KeyInjective /\ C28_KeysOfHandles /\ C28_HandleOfRequest

\* A LOOKUP of proxy:proxy:t:n with flags 8 was served from a handle that
\* was there, and the same table is open with flags 0 too.
C28_Witness ==
    /\ ProxyRequestIs("lookup")
    /\ plast.n = MaxProxyPrefix
    /\ plast.flags = 8
    /\ plast.status = "PROXY_STAT_OK"
    /\ ~plast.opened
    /\ \E k1 \in DOMAIN dict_table, k2 \in DOMAIN dict_table :
           /\ k1 # k2
           /\ KeyNamePart(k1) = plast.name
           /\ KeyNamePart(k2) = plast.name

\* The names that a call for recipient may look up, in their order: the
\* address without its extension when a delimiter is set and the localpart
\* has one, the address itself, and "@domain" when the address has an '@'.
LastAt(rcpt) ==
    IF \E i \in 1..Len(rcpt) : rcpt[i] = "@"
    THEN CHOOSE i \in 1..Len(rcpt) :
             rcpt[i] = "@" /\ \A j \in (i + 1)..Len(rcpt) : rcpt[j] # "@"
    ELSE Len(rcpt) + 1

ExtensionAt(delim, rcpt) ==
    IF delim # "" /\ \E i \in 1..(LastAt(rcpt) - 1) : rcpt[i] = delim
    THEN CHOOSE i \in 1..(LastAt(rcpt) - 1) :
             rcpt[i] = delim /\ \A j \in 1..(i - 1) : rcpt[j] # delim
    ELSE 0

LookupKeys(delim, rcpt) ==
    (IF ExtensionAt(delim, rcpt) # 0
     THEN <<SubSeq(rcpt, 1, ExtensionAt(delim, rcpt) - 1)
                \o SubSeq(rcpt, LastAt(rcpt), Len(rcpt))>>
     ELSE <<>>)
        \o <<rcpt>>
        \o (IF LastAt(rcpt) <= Len(rcpt)
            THEN <<SubSeq(rcpt, LastAt(rcpt), Len(rcpt))>>
            ELSE <<>>)

\* What a lookup of name gives: "none", "error" or "value".
LookupOutcome(maps, name) ==
    IF name \notin DOMAIN maps THEN "none"
    ELSE IF maps[name] = MapsError THEN "error"
    ELSE "value"

\* call is what virtual8_maps_find gave for rcpt: it tried the first n
\* names, all but the last found nothing, it stopped before the end only
\* at a value or an error, and it gave what the last one gave.
InLookupOrder(call, rcpt) ==
    LET keys == LookupKeys(virt8.var_rcpt_delim, rcpt)
        n == Len(call.tried)
    IN  /\ n >= 1
        /\ n <= Len(keys)
        /\ call.tried = SubSeq(keys, 1, n)
        /\ \A i \in 1..(n - 1) : LookupOutcome(virt8.maps, keys[i]) = "none"
        /\ n < Len(keys) => LookupOutcome(virt8.maps, keys[n]) # "none"
        /\ IF LookupOutcome(virt8.maps, keys[n]) = "value"
           THEN call.result = virt8.maps[keys[n]] /\ call.dict_errno = 0
           ELSE /\ call.result = NULL
                /\ call.dict_errno # 0 <=> LookupOutcome(virt8.maps, keys[n]) = "error"

EntryKept(b) ==
    /\ b \in DOMAIN verify_map' <=> b \in DOMAIN verify_map
    /\ b \in DOMAIN verify_map => verify_map'[b] = verify_map[b]
    /\ hist'[b] = hist[b]

C30_OthersKept == \A b \in IsoAddrs : last'.addr # b => EntryKept(b)

C30_UpdateOnlyPuts ==
    LastIs("update") => last.probe = "none" /\ last.ndel = 0

C30_ProbeToRequested ==
    (LastIs("query") /\ last.probe = "queued") => hist[last.addr].probe_at = now

(***************************************************************************)
(* C30. Per-address isolation: a QUERY(A) or UPDATE(A, ...) writes only    *)
(* the stored entry of A and submits a probe only to the recipient A: for  *)
(* every other address B the stored entry of B and the probes sent to B    *)
(* are what they were before the request. An UPDATE submits no probe and   *)
(* deletes no entry.                                                       *)
(***************************************************************************)
C30_Isolation ==
    [](C30_UpdateOnlyPuts /\ C30_ProbeToRequested) /\ [][C30_OthersKept]_vars

\* A QUERY(u@x) deleted the stale entry of u@x and queued a probe, with an
\* entry for v@x in the table.
C30_Witness ==
    /\ LastIs("query")
    /\ last.addr = "u@x"
    /\ last.ndel = 1
    /\ last.probe = "queued"
    /\ "v@x" \in DOMAIN verify_map
    /\ "u@x" \notin DOMAIN verify_map
====
